---- MODULE Spec2Model ----
(***************************************************************************)
(* A model of the notebook "Python's async def is a magic footgun":        *)
(* the write/compute scenarios (example2 .. example10), the simulated OS   *)
(* write (os_async_write, async_sleep), the single-writer lock, and the    *)
(* eager adapter js_like_await, all running on one asyncio event loop.     *)
(*                                                                         *)
(* One event-loop thread: `loop.running` is the task whose code is on the  *)
(* stack; the loop's own steps (LoopIter, RunHandle) need it to be NoTask. *)
(* Code runs one statement per action, so that what happens between two    *)
(* suspension points is visible.                                           *)
(***************************************************************************)
EXTENDS Integers, Sequences, FiniteSets, TLC

\* ------------------------------------------------------------ constants
WORK_TIME == 2
WRITE_TIME == 1
\* range(3) of every example loop
Iterations == 3

MainTask == -1
NoTask == -2
NoComp == -1

Idx == 0 .. (Iterations - 1)

\* The ways an example creates write i.
\* "awaitable" is write_output_awaitable, the plain function that starts the
\* write and returns the coroutine that waits for it.
Modes == {"coro", "task", "eager", "awaitable"}
\* The coroutine function handed to the loop / to js_like_await: the
\* notebook's write_output_async, and two one-line coroutine functions that
\* never suspend (one returns a value, one raises), one that raises after
\* awaiting async_sleep, and write_output_async with a sleep future that
\* fails (its timer calls set_exception).
Bodies == {"write", "returns", "raises", "fails_late", "awaits_failed"}
\* "prev": await lastWrite before the next write and after the loop;
\* "end": everything is awaited after the loop (TaskGroup / one by one);
\* "never": the awaitable is dropped.
\* "twice": as "prev", and lastWrite is awaited once more after the loop.
Joins == {"prev", "end", "never", "twice"}

VARIABLES
    cfg,      \* the scenario: [mode, lock, yield, join, body]
    clock,    \* time.time() - logstart, in time units
    log,      \* the printed transcript: <<[m, i, t]>>
    main,     \* the example coroutine (the cell's top-level await)
    comps,    \* the coroutine object of write i, with its driver bookkeeping
    cur,      \* whose code is executing: [c, via]
    loop,     \* the event loop: [ready, timers, ntodo, ticks, running]
    futures,  \* every asyncio.Future / Task result, by id
    lock,     \* write_lock
    handle    \* what creating write i returned to the example

vars == <<cfg, clock, log, main, comps, cur, loop, futures, lock, handle>>

\* ------------------------------------------------------------ data
FutKinds == {"sleep", "lock", "task", "res", "tg"}
FutIds == FutKinds \X Idx
NoFut == <<"none", 0>>

SleepFut(c) == <<"sleep", c>>
LockFut(c) == <<"lock", c>>
TaskFut(c) == <<"task", c>>
ResFut(c) == <<"res", c>>
TgFut == <<"tg", 0>>

\* A handle of the loop's ready queue, and a done-callback of a future.
H(k, t, f) == [k |-> k, t |-> t, f |-> f]
Wake(t) == H("wake", t, NoFut)

Entry(m, i) == [m |-> m, i |-> i, t |-> clock]

\* An asyncio.Future: _state, _callbacks, _result and the flag
\* _asyncio_future_blocking (set by Future.__await__ when it yields the
\* future, cleared by the Task that takes it).  sets / rejects count the
\* set_result / set_exception calls that took effect / were refused.
NewFuture ==
    [st |-> "none", cbs |-> <<>>, val |-> "none", blk |-> FALSE, sets |-> 0,
     rejects |-> 0]

\* asyncio.Future(), with the callbacks registered right after
PendingFuture(cbs) == [NewFuture EXCEPT !.st = "pending", !.cbs = cbs]

NewComp ==
    [pc |-> "none", exc |-> FALSE, steps |-> 0, late |-> 0, yielded |-> <<>>,
     awaited |-> <<>>, got |-> "none", createdTick |-> -1, firstTick |-> -1,
     retTick |-> -1, sleepAt |-> -1]

\* The event loop: the ready queue, the timers (a heap), the
\* number of handles the current pass still runs, the passes made, and the
\* task whose code is on the stack.  made / fired list the timers in the
\* order call_later created them / their callbacks ran; coarse tells
\* whether the loop's clock can give two calls the same reading.
NewLoop(running, coarse) ==
    [ready |-> <<>>, timers |-> <<>>, ntodo |-> 0, ticks |-> 0,
     running |-> running, made |-> <<>>, fired |-> <<>>, coarse |-> coarse]

Scenarios ==
    { s \in [mode : Modes, lock : BOOLEAN, yield : BOOLEAN, join : Joins,
             body : Bodies] :
        /\ (s.body # "write") => s.join # "end"
        /\ (s.body \notin {"write", "awaits_failed"}) => ~s.lock
        /\ (s.mode = "awaitable") => (s.body = "write") }

Init ==
    /\ cfg \in Scenarios
    /\ clock = 0
    /\ log = <<>>
    /\ main = [pc |-> "start", i |-> 0, lastWrite |-> NoComp, aw |-> "none",
               awt |-> NoComp, cpuLeft |-> 0, err |-> "none", tg |-> {},
               doneAt |-> -1, again |-> "none"]
    /\ comps = [c \in Idx |-> NewComp]
    /\ cur = [c |-> NoComp, via |-> "none"]
    /\ \E coarse \in BOOLEAN : loop = NewLoop(MainTask, coarse)
    /\ futures = [f \in FutIds |-> NewFuture]
    /\ lock = [locked |-> FALSE, waiters |-> <<>>, holders |-> {},
               acqOrder |-> <<>>, grantOrder |-> <<>>, wakes |-> <<>>,
               released |-> <<>>, notHeld |-> <<>>]
    /\ handle = [c \in Idx |-> [kind |-> "none", awaitable |-> NoFut]]


\* ------------------------------------------------------------ event loop
\* The part of the world a library call changes: the futures and the loop.
World == [futs |-> futures, lp |-> loop]

\* (a call_soon that puts the handle in front of the ready queue)
CallSoonFirst(lp, h) == [lp EXCEPT !.ready = <<h>> \o @]

\* loop.call_soon(handle)
CallSoon(lp, h) == [lp EXCEPT !.ready = Append(@, h)]

\* Future.add_done_callback: a settled future schedules the callback with
\* call_soon, a pending one keeps it in registration order.
AddDoneCallback(w, f, cb) ==
    IF w.futs[f].st \in {"done", "failed"}
    THEN [w EXCEPT !.lp = CallSoon(@, cb)]
    ELSE [w EXCEPT !.futs[f].cbs = Append(@, cb)]

Reverse(q) == [k \in 1 .. Len(q) |-> q[Len(q) + 1 - k]]

\* (callbacks scheduled newest first)
ScheduleCallbacksReversed(lp, cbs) == [lp EXCEPT !.ready = @ \o Reverse(cbs)]

\* Future.__schedule_callbacks: every callback goes to the ready queue, in
\* registration order.
ScheduleCallbacks(lp, cbs) == [lp EXCEPT !.ready = @ \o cbs]

\* (a set_result that forgets the callbacks)
SettleSilently(w, f, how, val) ==
    [futs |-> [w.futs EXCEPT ![f].st = how, ![f].cbs = <<>>, ![f].val = val,
                             ![f].sets = @ + 1],
     lp |-> w.lp]

\* Future.set_result / set_exception on a pending future.
Settle(w, f, how, val) ==
    [futs |-> [w.futs EXCEPT ![f].st = how, ![f].cbs = <<>>, ![f].val = val,
                             ![f].sets = @ + 1],
     lp |-> ScheduleCallbacks(w.lp, w.futs[f].cbs)]

\* (a set_result that does not look at the state)
SetResultUnchecked(w, f, how, val) == Settle(w, f, how, val)

\* Future.set_result / set_exception: InvalidStateError unless the future is
\* pending, and then nothing else changes.
SetResult(w, f, how, val) ==
    IF w.futs[f].st = "pending"
    THEN Settle(w, f, how, val)
    ELSE [w EXCEPT !.futs[f].rejects = @ + 1]

\* TimerHandle.__lt__: the loop's timers are a heap (heapq) ordered by their
\* deadline `when = loop.time() + delay` alone.  Two call_later calls made at
\* the same instant of this model's clock read loop.time() one after the
\* other: on a clock that advances between the two reads the later call has
\* the later deadline; on a coarse clock (lp.coarse) both read the same value
\* and timers of equal delay have equal deadlines.
Less(a, b, coarse) ==
    \/ a.when < b.when
    \/ ~coarse /\ a.when = b.when /\ a.seq < b.seq

\* heapq._siftdown: item moves from pos towards the root while it is less
\* than its parent.
RECURSIVE SiftDown(_, _, _, _)
SiftDown(h, pos, item, coarse) ==
    IF pos > 1 /\ Less(item, h[pos \div 2], coarse)
    THEN SiftDown([h EXCEPT ![pos] = h[pos \div 2]], pos \div 2, item, coarse)
    ELSE [h EXCEPT ![pos] = item]

\* heapq._siftup: the smaller child moves up (the right one unless the left
\* one is less) until a leaf is reached; item is put there and sifted down.
RECURSIVE SiftUp(_, _, _, _)
SiftUp(h, pos, item, coarse) ==
    LET left == 2 * pos
        right == left + 1
        child == IF right <= Len(h) /\ ~Less(h[left], h[right], coarse)
                 THEN right ELSE left
    IN IF left <= Len(h)
       THEN SiftUp([h EXCEPT ![pos] = h[child]], child, item, coarse)
       ELSE SiftDown(h, pos, item, coarse)

\* heapq.heappush
HeapPush(h, item, coarse) == SiftDown(Append(h, item), Len(h) + 1, item, coarse)

\* heapq.heappop: what is left of the heap when its first item is taken.
HeapPop(h, coarse) ==
    IF Len(h) <= 1 THEN <<>>
    ELSE SiftUp(SubSeq(h, 1, Len(h) - 1), 1, h[Len(h)], coarse)

\* _run_once: the timers that are due are popped one by one and appended
\* to the ready queue.
RECURSIVE PopDue(_, _, _, _)
PopDue(h, now, due, coarse) ==
    IF h # <<>> /\ h[1].when <= now
    THEN PopDue(HeapPop(h, coarse), now, Append(due, H(h[1].how, NoTask, h[1].f)),
                coarse)
    ELSE [timers |-> h, due |-> due]

\* loop.call_later(t, future.set_result, None); how = "failed" stands for a
\* timer whose callback is future.set_exception.
CallLater(lp, t, f, how) ==
    [lp EXCEPT !.timers = HeapPush(@, [when |-> clock + t, f |-> f, how |-> how,
                                       seq |-> Len(lp.made)], lp.coarse),
               !.made = Append(@, [when |-> clock + t, f |-> f])]

LoopAlwaysHasControl == TRUE

\* The loop takes a step of its own only when no task's code is on the
\* stack: do_cpu_work's time.sleep and every other statement block it.
LoopHasControl == loop.running = NoTask

\* (a loop that makes a pass although nothing is ready and no timer is set)
HasWorkAlways(lp) == TRUE

\* With an empty ready queue and no timer, the loop waits in select() without
\* a timeout: it makes no pass until there is something to run.
HasWork(lp) == ~(lp.ready = <<>> /\ lp.timers = <<>>)

\* One pass of the loop (_run_once) up to the point where it starts calling
\* handles: sleep until the next deadline when nothing is ready, move the due
\* timers behind what is already ready, and fix how many handles this pass
\* runs.
LoopIter ==
    /\ LoopHasControl
    /\ loop.ntodo = 0
    /\ HasWork(loop)
    /\ LET now == IF loop.ready = <<>> /\ loop.timers # <<>>
                     /\ loop.timers[1].when > clock
                  THEN loop.timers[1].when ELSE clock
           popped == PopDue(loop.timers, now, <<>>, loop.coarse)
           rdy == loop.ready \o popped.due
       IN /\ clock' = now
          /\ loop' = [loop EXCEPT !.ready = rdy,
                                  !.timers = popped.timers,
                                  !.ntodo = Len(rdy),
                                  !.ticks = @ + 1]
    /\ UNCHANGED <<cfg, log, main, comps, cur, futures, lock, handle>>

\* Where an await of the example goes when it has its value.
AwaitNext(m) ==
    CASE m.pc = "await_prev" ->
           [m EXCEPT !.pc = "create", !.aw = "none", !.awt = NoComp]
      [] m.pc = "await_last" ->
           IF cfg.join = "twice"
           THEN [m EXCEPT !.pc = "await_again", !.aw = "begin"]
           ELSE [m EXCEPT !.pc = "done_log", !.aw = "none", !.awt = NoComp]
      [] m.pc = "await_again" ->
           [m EXCEPT !.pc = "done_log", !.aw = "none", !.awt = NoComp,
                     !.again = "value"]
      [] m.pc = "await_each" ->
           IF m.awt + 1 < Iterations
           THEN [m EXCEPT !.awt = @ + 1, !.aw = "begin"]
           ELSE [m EXCEPT !.pc = "done_log", !.aw = "none", !.awt = NoComp]
      [] OTHER -> m

\* An exception leaves the example; err tells at which statement ("at_again"
\* is the second await of lastWrite after the loop).
MainFailed(m, where) ==
    [m EXCEPT !.pc = "failed", !.aw = "none",
              !.err = IF m.pc = "await_again" THEN "at_again" ELSE where]

\* coro_obj.send(None) reaching write c: the coroutine runs on from where it
\* was suspended (a new one from its first statement).
Send(cmps, c) ==
    [cmps EXCEPT ![c].steps = @ + 1,
                 ![c].late = IF cmps[c].pc \in {"done", "failed"} THEN @ + 1 ELSE @,
                 ![c].firstTick = IF @ = -1 THEN loop.ticks ELSE @,
                 ![c].pc = IF @ = "created" THEN "tell" ELSE @]

Popped == [loop EXCEPT !.ready = Tail(@), !.ntodo = @ - 1]

\* The timer's callback: future.set_result(None) (or set_exception).
RunSetResult ==
    /\ LoopHasControl /\ loop.ntodo > 0
    /\ Head(loop.ready).k \in {"done", "failed"}
    /\ LET w == SetResult([futs |-> futures, lp |-> Popped],
                          Head(loop.ready).f, Head(loop.ready).k, "None")
       IN /\ futures' = w.futs
          /\ loop' = [w.lp EXCEPT !.fired = Append(@, Head(loop.ready).f)]
    /\ UNCHANGED <<cfg, clock, log, main, comps, cur, lock, handle>>

\* Task.__step / __wakeup of the task of write c.
RunTaskStep ==
    /\ LoopHasControl /\ loop.ntodo > 0
    /\ Head(loop.ready).k \in {"step", "wake"}
    /\ Head(loop.ready).t # MainTask
    /\ LET c == Head(loop.ready).t
       IN /\ comps' = Send(comps, c)
          /\ cur' = [c |-> c, via |-> "task"]
          /\ loop' = [Popped EXCEPT !.running = c]
    /\ UNCHANGED <<cfg, clock, log, main, futures, lock, handle>>

\* Task.__step / __wakeup of the example's own task: the send goes down to
\* the frame that is suspended.  When the future the task waited on has
\* failed, __wakeup throws its exception in instead: a coroutine awaited
\* with `await` gets it at its own await (the send below, and ResumeSleep),
\* but inside JSLikeCoroutine.__await__ it is raised at the generator's
\* `yield` and never reaches the wrapped coroutine.
RunMainStep ==
    /\ LoopHasControl /\ loop.ntodo > 0
    /\ Head(loop.ready).k \in {"step", "wake"}
    /\ Head(loop.ready).t = MainTask
    /\ LET lp == [Popped EXCEPT !.running = MainTask]
           c == main.awt
       IN CASE main.aw = "sleep0" ->
                 /\ main' = [main EXCEPT !.pc = "loop_next", !.aw = "none"]
                 /\ loop' = lp
                 /\ UNCHANGED <<comps, cur>>
            [] main.aw = "tg" ->
                 /\ main' = [main EXCEPT !.pc = "done_log", !.aw = "none"]
                 /\ loop' = lp
                 /\ UNCHANGED <<comps, cur>>
            [] main.aw = "throw" ->
                 /\ main' = MainFailed(main, "at_await")
                 /\ loop' = [lp EXCEPT !.running = NoTask]
                 /\ UNCHANGED <<comps, cur>>
            [] main.aw = "susp_task" ->
                 IF futures[TaskFut(c)].st = "done"
                 THEN /\ main' = AwaitNext(main)
                      /\ comps' = [comps EXCEPT ![c].got = futures[TaskFut(c)].val]
                      /\ loop' = lp
                      /\ UNCHANGED cur
                 ELSE /\ main' = MainFailed(main, "at_await")
                      /\ loop' = [lp EXCEPT !.running = NoTask]
                      /\ UNCHANGED <<comps, cur>>
            [] main.aw \in {"susp_first", "susp_loop"} ->
                 IF futures[comps[c].awaited[Len(comps[c].awaited)]].st = "failed"
                 THEN /\ main' = MainFailed(main, "at_await")
                      /\ loop' = [lp EXCEPT !.running = NoTask]
                      /\ UNCHANGED <<comps, cur>>
                 ELSE /\ main' = [main EXCEPT !.aw = "inner"]
                      /\ comps' = Send(comps, c)
                      /\ cur' = [c |-> c, via |-> "handle"]
                      /\ loop' = lp
            [] main.aw = "susp_coro" ->
                 /\ main' = [main EXCEPT !.aw = "inner"]
                 /\ comps' = Send(comps, c)
                 /\ cur' = [c |-> c, via |-> "await"]
                 /\ loop' = lp
    /\ UNCHANGED <<cfg, clock, log, futures, lock, handle>>

\* TaskGroup._on_task_done: the last task to finish completes the future
\* __aexit__ waits on.
RunTaskGroupDone ==
    /\ LoopHasControl /\ loop.ntodo > 0
    /\ Head(loop.ready).k = "tgdone"
    /\ LET left == main.tg \ {Head(loop.ready).t}
           w == IF left = {} /\ futures[TgFut].st = "pending"
                THEN Settle([futs |-> futures, lp |-> Popped], TgFut, "done", "None")
                ELSE [futs |-> futures, lp |-> Popped]
       IN /\ main' = [main EXCEPT !.tg = left]
          /\ futures' = w.futs
          /\ loop' = w.lp
    /\ UNCHANGED <<cfg, clock, log, comps, cur, lock, handle>>


\* ------------------------------------------------------------ the example
\* The example's own statements run when its task is on the stack and no
\* write coroutine is being driven inside it.
MainRuns == loop.running = MainTask /\ cur.c = NoComp

\* log("Starting", start=True)
MainStart ==
    /\ MainRuns /\ main.pc = "start"
    /\ log' = Append(log, Entry("Starting", -1))
    /\ main' = [main EXCEPT !.pc = "cpu"]
    /\ UNCHANGED <<cfg, clock, comps, cur, loop, futures, lock, handle>>

\* do_cpu_work: the start marker
CpuStart ==
    /\ MainRuns /\ main.pc = "cpu"
    /\ log' = Append(log, Entry("XStart", main.i))
    /\ main' = [main EXCEPT !.pc = "cpu_busy", !.cpuLeft = WORK_TIME]
    /\ UNCHANGED <<cfg, clock, comps, cur, loop, futures, lock, handle>>

\* do_cpu_work: time.sleep(WORK_TIME), one time unit at a time; the thread
\* is blocked, nothing else runs.
CpuTick ==
    /\ MainRuns /\ main.pc = "cpu_busy" /\ main.cpuLeft > 0
    /\ clock' = clock + 1
    /\ main' = [main EXCEPT !.cpuLeft = @ - 1]
    /\ UNCHANGED <<cfg, log, comps, cur, loop, futures, lock, handle>>

\* The examples that await lastWrite before the next write.
JoinsPrev == cfg.join \in {"prev", "twice"}

\* do_cpu_work: the done marker; then `if lastWrite: await lastWrite`
CpuDone ==
    /\ MainRuns /\ main.pc = "cpu_busy" /\ main.cpuLeft = 0
    /\ log' = Append(log, Entry("XDone", main.i))
    /\ main' = IF JoinsPrev /\ main.lastWrite # NoComp
               THEN [main EXCEPT !.pc = "await_prev", !.aw = "begin",
                                 !.awt = main.lastWrite]
               ELSE [main EXCEPT !.pc = "create"]
    /\ UNCHANGED <<cfg, clock, comps, cur, loop, futures, lock, handle>>

Created(cmps, c) ==
    [cmps EXCEPT ![c].pc = "created", ![c].createdTick = loop.ticks]

\* (a coroutine function whose call already runs the body to its first await)
CreateCoroStarted ==
    /\ MainRuns /\ main.pc = "create" /\ cfg.mode = "coro"
    /\ comps' = Send(Created(comps, main.i), main.i)
    /\ cur' = [c |-> main.i, via |-> "invoke"]
    /\ main' = [main EXCEPT !.pc = "invoking"]
    /\ UNCHANGED <<cfg, clock, log, loop, futures, lock, handle>>

\* lastWrite = write_output_async(i): a coroutine object, nothing runs.
CreateCoro ==
    /\ MainRuns /\ main.pc = "create" /\ cfg.mode = "coro"
    /\ comps' = Created(comps, main.i)
    /\ handle' = [handle EXCEPT ![main.i] = [kind |-> "coro", awaitable |-> NoFut]]
    /\ main' = [main EXCEPT !.pc = "after_create", !.lastWrite = main.i]
    /\ UNCHANGED <<cfg, clock, log, cur, loop, futures, lock>>

\* (a create_task that runs the task's first step before it returns)
CreateTaskStepping ==
    /\ MainRuns /\ main.pc = "create" /\ cfg.mode = "task"
    /\ comps' = Send(Created(comps, main.i), main.i)
    /\ cur' = [c |-> main.i, via |-> "invoke"]
    /\ main' = [main EXCEPT !.pc = "invoking"]
    /\ UNCHANGED <<cfg, clock, log, loop, futures, lock, handle>>

\* asyncio.create_task / tg.create_task: the task's first step is put on the
\* ready queue with call_soon; a TaskGroup also registers _on_task_done.
CreateTask ==
    /\ MainRuns /\ main.pc = "create" /\ cfg.mode = "task"
    /\ LET c == main.i
           grouped == cfg.join = "end"
       IN /\ comps' = Created(comps, c)
          /\ handle' = [handle EXCEPT ![c] = [kind |-> "task", awaitable |-> TaskFut(c)]]
          /\ futures' = [futures EXCEPT ![TaskFut(c)] =
                           PendingFuture(IF grouped THEN <<H("tgdone", c, NoFut)>>
                                         ELSE <<>>)]
          /\ loop' = CallSoon(loop, H("step", c, NoFut))
          /\ main' = [main EXCEPT !.pc = "after_create", !.lastWrite = c,
                                  !.tg = IF grouped THEN @ \cup {c} ELSE @]
    /\ UNCHANGED <<cfg, clock, log, cur, lock>>

\* lastWrite = write_output_awaitable(i): a plain call; its statements run
\* in the caller's own context up to `return _wait_for_inner(awaitable)`.
CallAwaitable ==
    /\ MainRuns /\ main.pc = "create" /\ cfg.mode = "awaitable"
    /\ comps' = [comps EXCEPT ![main.i].pc = "tell",
                               ![main.i].createdTick = loop.ticks,
                               ![main.i].firstTick = loop.ticks]
    /\ cur' = [c |-> main.i, via |-> "direct"]
    /\ main' = [main EXCEPT !.pc = "invoking"]
    /\ UNCHANGED <<cfg, clock, log, loop, futures, lock, handle>>

\* (an adapter that wraps the coroutine object without sending to it)
InvokeLazy ==
    /\ MainRuns /\ main.pc = "create" /\ cfg.mode = "eager"
    /\ comps' = Created(comps, main.i)
    /\ handle' = [handle EXCEPT ![main.i] = [kind |-> "coro", awaitable |-> NoFut]]
    /\ main' = [main EXCEPT !.pc = "after_create", !.lastWrite = main.i]
    /\ UNCHANGED <<cfg, clock, log, cur, loop, futures, lock>>

\* coroutine_with_js_like_await: coro_obj = coro(*args); coro_obj.send(None)
\* in the caller's own context.  The call returns in Yield or Finish.
InvokeEager ==
    /\ MainRuns /\ main.pc = "create" /\ cfg.mode = "eager"
    /\ comps' = Send(Created(comps, main.i), main.i)
    /\ cur' = [c |-> main.i, via |-> "invoke"]
    /\ main' = [main EXCEPT !.pc = "invoking"]
    /\ UNCHANGED <<cfg, clock, log, loop, futures, lock, handle>>

\* (every example yielding to the loop after creating the write)
AfterCreateYields ==
    /\ MainRuns /\ main.pc = "after_create"
    /\ main' = [main EXCEPT !.pc = "yielded", !.aw = "sleep0"]
    /\ loop' = [CallSoon(loop, H("step", MainTask, NoFut)) EXCEPT !.running = NoTask]
    /\ UNCHANGED <<cfg, clock, log, comps, cur, futures, lock, handle>>

\* example7 / to_aiter: await asyncio.sleep(0), a bare yield: the task puts
\* its own next step at the end of the ready queue.
AfterCreate ==
    /\ MainRuns /\ main.pc = "after_create"
    /\ IF cfg.yield
       THEN /\ main' = [main EXCEPT !.pc = "yielded", !.aw = "sleep0"]
            /\ loop' = [CallSoon(loop, H("step", MainTask, NoFut))
                          EXCEPT !.running = NoTask]
       ELSE /\ main' = [main EXCEPT !.pc = "loop_next"]
            /\ UNCHANGED loop
    /\ UNCHANGED <<cfg, clock, log, comps, cur, futures, lock, handle>>

\* for i in range(3)
LoopNext ==
    /\ MainRuns /\ main.pc = "loop_next"
    /\ main' = IF main.i + 1 < Iterations
               THEN [main EXCEPT !.i = @ + 1, !.pc = "cpu"]
               ELSE [main EXCEPT !.pc = "final"]
    /\ UNCHANGED <<cfg, clock, log, comps, cur, loop, futures, lock, handle>>

\* example7, example10 and the example with write_output_awaitable print
\* "Awaiting last write"; example2 and example6 do not.
HasAwaitLog == JoinsPrev /\ (cfg.mode \in {"eager", "awaitable"} \/ cfg.yield)

\* asyncio.gather(*writes): every coroutine is wrapped in a Task (its first
\* step goes to the ready queue, in argument order) with gather's
\* _done_callback on it; the last one to finish resolves the outer future
\* the example awaits.
Gathered(futs) ==
    [f \in FutIds |->
        CASE f[1] = "task" -> PendingFuture(<<H("tgdone", f[2], NoFut)>>)
          [] f = TgFut -> PendingFuture(<<Wake(MainTask)>>)
          [] OTHER -> futs[f]]

\* After the loop: await lastWrite, or TaskGroup.__aexit__, or gather, or the
\* handles one by one, or nothing.
Final ==
    /\ MainRuns /\ main.pc = "final"
    /\ log' = IF HasAwaitLog THEN Append(log, Entry("AwaitLast", -1)) ELSE log
    /\ CASE JoinsPrev ->
              /\ main' = [main EXCEPT !.pc = "await_last", !.aw = "begin",
                                      !.awt = main.lastWrite]
              /\ UNCHANGED <<futures, loop>>
         [] cfg.join = "end" /\ cfg.mode = "task" ->
              IF main.tg # {}
              THEN /\ main' = [main EXCEPT !.pc = "tg_wait", !.aw = "tg"]
                   /\ futures' = [futures EXCEPT ![TgFut] =
                                    PendingFuture(<<Wake(MainTask)>>)]
                   /\ loop' = [loop EXCEPT !.running = NoTask]
              ELSE /\ main' = [main EXCEPT !.pc = "done_log"]
                   /\ UNCHANGED <<futures, loop>>
         [] cfg.join = "end" /\ cfg.mode = "eager" ->
              /\ main' = [main EXCEPT !.pc = "await_each", !.aw = "begin", !.awt = 0]
              /\ UNCHANGED <<futures, loop>>
         [] cfg.join = "end" /\ cfg.mode \in {"coro", "awaitable"} ->
              /\ main' = [main EXCEPT !.pc = "tg_wait", !.aw = "tg", !.tg = Idx]
              /\ futures' = Gathered(futures)
              /\ loop' = [loop EXCEPT !.running = NoTask,
                                      !.ready = @ \o [k \in 1 .. Iterations |->
                                                        H("step", k - 1, NoFut)]]
         [] cfg.join = "never" ->
              /\ main' = [main EXCEPT !.pc = "done_log"]
              /\ UNCHANGED <<futures, loop>>
    /\ handle' = IF cfg.join = "end" /\ cfg.mode \in {"coro", "awaitable"}
                 THEN [c \in Idx |-> [kind |-> "task", awaitable |-> TaskFut(c)]]
                 ELSE handle
    /\ UNCHANGED <<cfg, clock, comps, cur, lock>>

\* log("Done"): the example returns and its task is finished.
DoneLog ==
    /\ MainRuns /\ main.pc = "done_log"
    /\ log' = Append(log, Entry("Done", -1))
    /\ main' = [main EXCEPT !.pc = "done", !.doneAt = clock]
    /\ loop' = [loop EXCEPT !.running = NoTask]
    /\ UNCHANGED <<cfg, clock, comps, cur, futures, lock, handle>>

AwaitPcs == {"await_prev", "await_last", "await_each", "await_again"}

\* `await lastWrite` on a coroutine object: its code runs inside the
\* example's own step.
\* A coroutine that has finished cannot be awaited again (RuntimeError).
AwaitCoro ==
    /\ MainRuns /\ main.pc \in AwaitPcs /\ main.aw = "begin"
    /\ handle[main.awt].kind = "coro"
    /\ IF comps[main.awt].pc \in {"done", "failed"}
       THEN /\ main' = MainFailed(main, "at_await")
            /\ loop' = [loop EXCEPT !.running = NoTask]
            /\ UNCHANGED <<comps, cur>>
       ELSE /\ comps' = Send(comps, main.awt)
            /\ cur' = [c |-> main.awt, via |-> "await"]
            /\ main' = [main EXCEPT !.aw = "inner"]
            /\ UNCHANGED loop
    /\ UNCHANGED <<cfg, clock, log, futures, lock, handle>>

\* `await lastWrite` on a Task or on the settled Future that the adapter
\* returns: Future.__await__ yields only while the future is pending.
AwaitFuture ==
    /\ MainRuns /\ main.pc \in AwaitPcs /\ main.aw = "begin"
    /\ handle[main.awt].kind \in {"task", "settled"}
    /\ LET c == main.awt
           f == handle[c].awaitable
       IN CASE futures[f].st = "done" ->
                 /\ main' = AwaitNext(main)
                 /\ comps' = [comps EXCEPT ![c].got = futures[f].val]
                 /\ UNCHANGED <<futures, loop>>
            [] futures[f].st = "failed" ->
                 /\ main' = MainFailed(main, "at_await")
                 /\ loop' = [loop EXCEPT !.running = NoTask]
                 /\ UNCHANGED <<futures, comps>>
            [] OTHER ->
                 LET w == AddDoneCallback(World, f, Wake(MainTask))
                 IN /\ main' = [main EXCEPT !.aw = "susp_task"]
                    /\ futures' = w.futs
                    /\ loop' = [w.lp EXCEPT !.running = NoTask]
                    /\ UNCHANGED comps
    /\ UNCHANGED <<cfg, clock, log, cur, lock, handle>>

\* (an __await__ without its first yield: it sends to the coroutine at once)
AwaitHandleSendsAtOnce ==
    /\ MainRuns /\ main.pc \in AwaitPcs /\ main.aw = "begin"
    /\ handle[main.awt].kind = "js"
    /\ comps' = Send(comps, main.awt)
    /\ cur' = [c |-> main.awt, via |-> "handle"]
    /\ main' = [main EXCEPT !.aw = "inner"]
    /\ UNCHANGED <<cfg, clock, log, loop, futures, lock, handle>>

\* JSLikeCoroutine.__await__, first statement: `yield self.awaitable`.  The
\* example's task takes the yielded future as Task.__step does: when the
\* future's _asyncio_future_blocking flag is set (it came out of
\* Future.__await__ and no task has taken it yet), the flag is cleared, the
\* task's wakeup is registered and the task is suspended; when it is not,
\* the task schedules its own next step with a RuntimeError ("yield was used
\* instead of yield from").
AwaitHandle ==
    /\ MainRuns /\ main.pc \in AwaitPcs /\ main.aw = "begin"
    /\ handle[main.awt].kind = "js"
    /\ LET c == main.awt
           f == handle[c].awaitable
           w == AddDoneCallback([World EXCEPT !.futs[f].blk = FALSE], f,
                                Wake(MainTask))
       IN IF futures[f].blk
          THEN /\ main' = [main EXCEPT !.aw = "susp_first"]
               /\ comps' = [comps EXCEPT ![c].awaited = Append(@, f)]
               /\ futures' = w.futs
               /\ loop' = [w.lp EXCEPT !.running = NoTask]
          ELSE /\ main' = [main EXCEPT !.aw = "throw"]
               /\ loop' = [CallSoon(loop, H("step", MainTask, NoFut))
                             EXCEPT !.running = NoTask]
               /\ UNCHANGED <<futures, comps>>
    /\ UNCHANGED <<cfg, clock, log, cur, lock, handle>>


\* ------------------------------------------------------------ drivers
Nobody == [c |-> NoComp, via |-> "none"]

\* return JSLikeCoroutine(future, coro_obj)
JSLikeCoroutine(f) == [kind |-> "js", awaitable |-> f]

UnsettledHandle(c) == [kind |-> "js", awaitable |-> ResFut(c)]

\* except StopIteration: result = asyncio.Future(); result.set_result(e.value)
SettledHandle(c) == [kind |-> "settled", awaitable |-> ResFut(c)]

\* (an adapter that also leaves the coroutine's wakeup on the future, as a
\* Task would)
ReturnHandleScheduled(c, f, w, cm) ==
    LET w2 == AddDoneCallback(w, f, Wake(c))
    IN /\ handle' = [handle EXCEPT ![c] = JSLikeCoroutine(f)]
       /\ comps' = [cm EXCEPT ![c].retTick = loop.ticks]
       /\ main' = [main EXCEPT !.pc = "after_create", !.lastWrite = c]
       /\ futures' = [w2.futs EXCEPT ![f].blk = TRUE]
       /\ loop' = w2.lp

\* coroutine_with_js_like_await: the first send returned future f; it is
\* handed back inside a JSLikeCoroutine and nothing is registered on it.
ReturnHandle(c, f, w, cm) ==
    /\ handle' = [handle EXCEPT ![c] = JSLikeCoroutine(f)]
    /\ comps' = [cm EXCEPT ![c].retTick = loop.ticks]
    /\ main' = [main EXCEPT !.pc = "after_create", !.lastWrite = c]
    /\ futures' = [w.futs EXCEPT ![f].blk = TRUE]
    /\ loop' = w.lp

\* Write c suspends on future f (Future.__await__ yields it).  Who gets the
\* yielded future depends on who sent: the adapter's first send returns it
\* inside a JSLikeCoroutine (the caller is not suspended); a Task, or the
\* example's task through `await` or through JSLikeCoroutine.__await__'s
\* `yield self.coro_obj.send(None)`, registers its wakeup on it and is
\* suspended.
Yield(c, f, w, cmps) ==
    LET cm == [cmps EXCEPT ![c].yielded = Append(@, f)]
    IN CASE cur.via = "invoke" -> ReturnHandle(c, f, w, cm)
         [] cur.via = "task" ->
              LET w2 == AddDoneCallback(w, f, Wake(c))
              IN /\ comps' = cm
                 /\ futures' = w2.futs
                 /\ loop' = [w2.lp EXCEPT !.running = NoTask]
                 /\ UNCHANGED <<main, handle>>
         [] cur.via = "await" ->
              LET w2 == AddDoneCallback(w, f, Wake(MainTask))
              IN /\ comps' = cm
                 /\ main' = [main EXCEPT !.aw = "susp_coro"]
                 /\ futures' = w2.futs
                 /\ loop' = [w2.lp EXCEPT !.running = NoTask]
                 /\ UNCHANGED handle
         [] cur.via = "handle" ->
              LET w2 == AddDoneCallback(w, f, Wake(MainTask))
              IN /\ comps' = [cm EXCEPT ![c].awaited = Append(@, f)]
                 /\ main' = [main EXCEPT !.aw = "susp_loop"]
                 /\ futures' = w2.futs
                 /\ loop' = [w2.lp EXCEPT !.running = NoTask]
                 /\ UNCHANGED handle

\* Write c returns val (StopIteration) or raises.  A Task settles its own
\* future; an awaiting example goes on, or gets the exception; the adapter's
\* first send catches StopIteration only (a settled Future is returned) and
\* lets every other exception out of the call.
Finish(c, ok, val, w, cmps) ==
    LET cm == [cmps EXCEPT ![c].pc = IF ok THEN "done" ELSE "failed"]
    IN CASE cur.via = "task" ->
              LET w2 == Settle(w, TaskFut(c), IF ok THEN "done" ELSE "failed", val)
              IN /\ comps' = cm
                 /\ futures' = w2.futs
                 /\ loop' = [w2.lp EXCEPT !.running = NoTask]
                 /\ UNCHANGED <<main, handle>>
         [] cur.via \in {"await", "handle"} ->
              /\ comps' = IF ok THEN [cm EXCEPT ![c].got = val] ELSE cm
              /\ main' = IF ok THEN AwaitNext(main) ELSE MainFailed(main, "at_await")
              /\ futures' = w.futs
              /\ loop' = IF ok THEN w.lp ELSE [w.lp EXCEPT !.running = NoTask]
              /\ UNCHANGED handle
         [] cur.via = "invoke" ->
              IF ok
              THEN LET w2 == Settle(w, ResFut(c), "done", val)
                   IN /\ comps' = [cm EXCEPT ![c].retTick = loop.ticks]
                      /\ handle' = [handle EXCEPT ![c] = SettledHandle(c)]
                      /\ main' = [main EXCEPT !.pc = "after_create", !.lastWrite = c]
                      /\ futures' = w2.futs
                      /\ loop' = w2.lp
              ELSE /\ comps' = cm
                   /\ main' = MainFailed(main, "at_invoke")
                   /\ futures' = w.futs
                   /\ loop' = [w.lp EXCEPT !.running = NoTask]
                   /\ UNCHANGED handle

\* ------------------------------------------------------------ the write
CompAt(c, pc) == cur.c = c /\ comps[c].pc = pc

\* The coroutine of write c runs (it is not the plain-function part of
\* write_output_awaitable).
Driven(c, pc) == CompAt(c, pc) /\ cur.via # "direct"

\* write_output_awaitable: `return _wait_for_inner(awaitable)`.  The two
\* coroutine objects (_wait_for_inner around _wait_for_write) are created,
\* none of their code has run: with the lock, write_lock.acquire() is only a
\* coroutine object as well.
ReturnAwaitable(c) ==
    /\ cur.c = c /\ cur.via = "direct"
    /\ comps[c].pc \in {"acquire", "await_sleep"}
    /\ handle' = [handle EXCEPT ![c] = [kind |-> "coro", awaitable |-> NoFut]]
    /\ comps' = [comps EXCEPT ![c].retTick = loop.ticks]
    /\ main' = [main EXCEPT !.pc = "after_create", !.lastWrite = c]
    /\ cur' = Nobody
    /\ UNCHANGED <<cfg, clock, log, loop, futures, lock>>

\* write_output_async: log "Tell OS to write output i"
Tell(c) ==
    /\ CompAt(c, "tell")
    /\ log' = Append(log, Entry("Tell", c))
    /\ comps' = [comps EXCEPT ![c].pc =
                   CASE cfg.body \in {"write", "awaits_failed"} -> "os_write"
                     [] cfg.body = "returns" -> "ret"
                     [] cfg.body = "raises" -> "boom"
                     [] cfg.body = "fails_late" -> "sleep"]
    /\ UNCHANGED <<cfg, clock, main, cur, loop, futures, lock, handle>>

\* os_async_write: log "OS started writing i"
OsWrite(c) ==
    /\ CompAt(c, "os_write")
    /\ log' = Append(log, Entry("WStart", c))
    /\ comps' = [comps EXCEPT ![c].pc = IF cfg.lock THEN "acquire" ELSE "sleep"]
    /\ UNCHANGED <<cfg, clock, main, cur, loop, futures, lock, handle>>

\* (a sleep that starts only when the timers set before it have run out)
AsyncSleepQueued(c) ==
    /\ CompAt(c, "sleep")
    /\ futures' = [futures EXCEPT ![SleepFut(c)] = PendingFuture(<<>>)]
    /\ loop' = CallLater(loop, WRITE_TIME * (Len(loop.timers) + 1), SleepFut(c),
                         IF cfg.body = "awaits_failed" THEN "failed" ELSE "done")
    /\ comps' = [comps EXCEPT ![c].pc = "await_sleep", ![c].sleepAt = clock]
    /\ UNCHANGED <<cfg, clock, log, main, cur, lock, handle>>

\* async_sleep(WRITE_TIME): a new Future and a timer that resolves it.
AsyncSleep(c) ==
    /\ CompAt(c, "sleep")
    /\ futures' = [futures EXCEPT ![SleepFut(c)] = PendingFuture(<<>>)]
    /\ loop' = CallLater(loop, WRITE_TIME, SleepFut(c),
                         IF cfg.body = "awaits_failed" THEN "failed" ELSE "done")
    /\ comps' = [comps EXCEPT ![c].pc = "await_sleep", ![c].sleepAt = clock]
    /\ UNCHANGED <<cfg, clock, log, main, cur, lock, handle>>

\* _wait_for_write: `await sleep_awaitable` / `await async_sleep(...)`
AwaitSleep(c) ==
    /\ Driven(c, "await_sleep")
    /\ Yield(c, SleepFut(c), World, [comps EXCEPT ![c].pc = "wait_sleep"])
    /\ cur' = Nobody
    /\ UNCHANGED <<cfg, clock, log, lock>>

\* The statement after the await of the sleep future.
AfterSleep ==
    CASE cfg.body = "fails_late" -> "boom"
      [] cfg.lock -> "release"
      [] cfg.body = "awaits_failed" -> "ret"
      [] OTHER -> "wdone"

\* (a resumption that takes a failed future for a result)
ResumeSleepIgnoresFailure(c) ==
    /\ CompAt(c, "wait_sleep")
    /\ comps' = [comps EXCEPT ![c].pc = AfterSleep]
    /\ UNCHANGED <<main, cur, loop, futures, handle>>
    /\ UNCHANGED <<cfg, clock, log, lock>>

\* The write is sent to while suspended on its sleep future:
\* Future.__await__ raises RuntimeError unless the future is done.
ResumeSleep(c) ==
    /\ CompAt(c, "wait_sleep")
    /\ LET ok == futures[SleepFut(c)].st = "done"
       IN IF cfg.lock \/ ok
          THEN /\ comps' = [comps EXCEPT ![c].exc = ~ok,
                                         ![c].pc = AfterSleep]
               /\ UNCHANGED <<main, cur, loop, futures, handle>>
          ELSE /\ Finish(c, FALSE, "none", World, comps)
               /\ cur' = Nobody
    /\ UNCHANGED <<cfg, clock, log, lock>>

\* _wait_for_write without the lock: log "OS done writing i"
WDone(c) ==
    /\ CompAt(c, "wdone")
    /\ log' = Append(log, Entry("WDone", c))
    /\ comps' = [comps EXCEPT ![c].pc = "completed"]
    /\ UNCHANGED <<cfg, clock, main, cur, loop, futures, lock, handle>>

\* write_output_async: log "OS writing completed i", and return None
Completed(c) ==
    /\ CompAt(c, "completed")
    /\ log' = Append(log, Entry("Completed", c))
    /\ Finish(c, TRUE, "None", World, comps)
    /\ cur' = Nobody
    /\ UNCHANGED <<cfg, clock, lock>>

\* A coroutine function that returns a value without awaiting anything.
Returns(c) ==
    /\ CompAt(c, "ret")
    /\ Finish(c, TRUE, "val", World, comps)
    /\ cur' = Nobody
    /\ UNCHANGED <<cfg, clock, log, lock>>

\* A coroutine function that raises before awaiting anything.
Raises(c) ==
    /\ CompAt(c, "boom")
    /\ Finish(c, FALSE, "none", World, comps)
    /\ cur' = Nobody
    /\ UNCHANGED <<cfg, clock, log, lock>>


\* ------------------------------------------------------------ write_lock
RemoveFut(ws, f) == SelectSeq(ws, LAMBDA x : x # f)

LockFreeAlways(lk) == TRUE

\* Lock.acquire's fast path: not locked and nobody queued.
LockFree(lk) == ~lk.locked /\ lk.waiters = <<>>

\* (a release that wakes the newest waiter)
WakeUpLast(w, lk) ==
    IF lk.waiters = <<>> THEN w
    ELSE IF w.futs[lk.waiters[Len(lk.waiters)]].st = "pending"
         THEN Settle(w, lk.waiters[Len(lk.waiters)], "done", "True")
         ELSE w

\* Lock._wake_up_first, called by release: the oldest waiter's future is
\* resolved, if it is still pending; the waiter takes the lock when it runs.
WakeUpFirst(w, lk) ==
    IF lk.waiters = <<>> THEN w
    ELSE IF w.futs[Head(lk.waiters)].st = "pending"
         THEN Settle(w, Head(lk.waiters), "done", "True")
         ELSE w

\* The waiters a release has just woken, oldest first.
Woken(w, lk) ==
    SelectSeq(lk.waiters,
              LAMBDA f : futures[f].st = "pending" /\ w.futs[f].st = "done")

Grant(lk, c) ==
    [lk EXCEPT !.locked = TRUE, !.holders = @ \cup {c},
               !.grantOrder = Append(@, c)]

\* _wait_for_write (lock branch): `await lock_awaitable`, which only now
\* runs write_lock.acquire(): take the free lock, or queue a new future and
\* suspend on it.
Acquire(c) ==
    /\ Driven(c, "acquire")
    /\ IF LockFree(lock)
       THEN /\ lock' = [Grant(lock, c) EXCEPT !.acqOrder = Append(@, c)]
            /\ comps' = [comps EXCEPT ![c].pc = "sleep"]
            /\ UNCHANGED <<main, cur, loop, futures, handle>>
       ELSE /\ lock' = [lock EXCEPT !.waiters = Append(@, LockFut(c)),
                                    !.acqOrder = Append(@, c)]
            /\ Yield(c, LockFut(c),
                     [futs |-> [futures EXCEPT ![LockFut(c)] = PendingFuture(<<>>)],
                      lp |-> loop],
                     [comps EXCEPT ![c].pc = "wait_lock"])
            /\ cur' = Nobody
    /\ UNCHANGED <<cfg, clock, log>>

\* Lock.acquire after its `await fut`: leave the queue and take the lock.
ResumeLock(c) ==
    /\ CompAt(c, "wait_lock")
    /\ IF futures[LockFut(c)].st = "done"
       THEN /\ lock' = [Grant(lock, c) EXCEPT !.waiters = RemoveFut(@, LockFut(c))]
            /\ comps' = [comps EXCEPT ![c].pc = "sleep"]
            /\ UNCHANGED <<main, cur, loop, futures, handle>>
       ELSE /\ lock' = [lock EXCEPT !.waiters = RemoveFut(@, LockFut(c))]
            /\ Finish(c, FALSE, "none", World, comps)
            /\ cur' = Nobody
    /\ UNCHANGED <<cfg, clock, log>>

\* (an except clause in place of the finally: no release when the wait failed)
ReleaseUnlessFailed(c) ==
    /\ CompAt(c, "release")
    /\ IF comps[c].exc
       THEN /\ Finish(c, FALSE, "none", World, comps)
            /\ cur' = Nobody
            /\ UNCHANGED lock
       ELSE LET w == WakeUpFirst(World, lock)
            IN /\ lock' = [lock EXCEPT !.locked = FALSE,
                                       !.holders = @ \ {c},
                                       !.wakes = Append(@, Woken(w, lock)),
                                       !.released = Append(@, c)]
               /\ comps' = [comps EXCEPT ![c].pc = "completed"]
               /\ futures' = w.futs
               /\ loop' = w.lp
               /\ UNCHANGED <<main, cur, handle>>
    /\ UNCHANGED <<cfg, clock, log>>

\* finally: write_lock.release(): RuntimeError when the lock is not held;
\* otherwise unlock and wake the oldest waiter.  A pending exception of the
\* try block goes on after it.
Release(c) ==
    /\ CompAt(c, "release")
    /\ IF lock.locked
       THEN LET w == WakeUpFirst(World, lock)
            IN /\ lock' = [lock EXCEPT !.locked = FALSE,
                                       !.holders = @ \ {c},
                                       !.wakes = Append(@, Woken(w, lock)),
                                       !.released = Append(@, c)]
               /\ IF comps[c].exc
                  THEN /\ Finish(c, FALSE, "none", w, comps)
                       /\ cur' = Nobody
                  ELSE /\ comps' = [comps EXCEPT ![c].pc = "completed"]
                       /\ futures' = w.futs
                       /\ loop' = w.lp
                       /\ UNCHANGED <<main, cur, handle>>
       ELSE /\ Finish(c, FALSE, "none", World, comps)
            /\ cur' = Nobody
            /\ lock' = [lock EXCEPT !.notHeld = Append(@, c)]
    /\ UNCHANGED <<cfg, clock, log>>

\* ------------------------------------------------------------ the system
CompStep(c) ==
    \/ Tell(c)
    \/ OsWrite(c)
    \/ AsyncSleep(c)
    \/ AwaitSleep(c)
    \/ ResumeSleep(c)
    \/ WDone(c)
    \/ Completed(c)
    \/ Returns(c)
    \/ Raises(c)
    \/ Acquire(c)
    \/ ResumeLock(c)
    \/ Release(c)
    \/ ReturnAwaitable(c)

Next ==
    \/ LoopIter
    \/ RunSetResult
    \/ RunTaskStep
    \/ RunMainStep
    \/ RunTaskGroupDone
    \/ MainStart
    \/ CpuStart
    \/ CpuTick
    \/ CpuDone
    \/ CreateCoro
    \/ CreateTask
    \/ InvokeEager
    \/ CallAwaitable
    \/ AfterCreate
    \/ LoopNext
    \/ Final
    \/ DoneLog
    \/ AwaitCoro
    \/ AwaitFuture
    \/ AwaitHandle
    \/ \E c \in Idx : CompStep(c)

Spec == Init /\ [][Next]_vars

\* One thread runs the example and the loop: whatever step is next is
\* eventually taken.
LiveSpec == Spec /\ WF_vars(Next)


\* ------------------------------------------------------------ the library calls alone
\* The calls the notebook makes on the loop and its futures (asyncio.Future(),
\* async_sleep, awaiting a future, set_result / set_exception), made in any
\* order and at any moment by code that runs between two handles of the
\* loop.  `main` counts the calls; `log` lists the waiters as they resume.
\* A run makes at most cfg.futs futures, cfg.waiters awaits and cfg.calls
\* direct set_result / set_exception calls.
ApiWaiters == 3
ApiCalls == 2
ApiMaxDur == 3

ApiPlan(futs, waiters, calls) ==
    [mode |-> "api", lock |-> FALSE, yield |-> FALSE, join |-> "never",
     body |-> "write", futs |-> futs, waiters |-> waiters, calls |-> calls]

\* Several timers; many waiters on one future; many calls on one future.
ApiPlans ==
    {ApiPlan(Iterations, 1, 0), ApiPlan(1, ApiWaiters, 1), ApiPlan(1, 1, ApiCalls)}

ApiRuns == cfg.mode = "api"

ApiInit ==
    /\ cfg \in ApiPlans
    /\ clock = 0
    /\ log = <<>>
    /\ main = [pc |-> "api", made |-> 0, nw |-> 0, calls |-> 0, regs |-> <<>>,
               err |-> "none"]
    /\ comps = [c \in Idx |-> NewComp]
    /\ cur = Nobody
    /\ \E coarse \in BOOLEAN : loop = NewLoop(NoTask, coarse)
    /\ futures = [f \in FutIds |-> NewFuture]
    /\ lock = [locked |-> FALSE, waiters |-> <<>>, holders |-> {},
               acqOrder |-> <<>>, grantOrder |-> <<>>, wakes |-> <<>>,
               released |-> <<>>, notHeld |-> <<>>]
    /\ handle = [c \in Idx |-> [kind |-> "none", awaitable |-> NoFut]]

\* The futures made so far.
ApiMade == {SleepFut(k) : k \in 0 .. (main.made - 1)}

\* future = asyncio.Future()
ApiFuture ==
    /\ ApiRuns /\ main.made < cfg.futs
    /\ futures' = [futures EXCEPT ![SleepFut(main.made)] = PendingFuture(<<>>)]
    /\ main' = [main EXCEPT !.made = @ + 1]
    /\ UNCHANGED <<cfg, clock, log, comps, cur, loop, lock, handle>>

\* async_sleep(d)
ApiSleep(d) ==
    /\ ApiRuns /\ main.made < cfg.futs
    /\ futures' = [futures EXCEPT ![SleepFut(main.made)] = PendingFuture(<<>>)]
    /\ loop' = CallLater(loop, d, SleepFut(main.made), "done")
    /\ main' = [main EXCEPT !.made = @ + 1]
    /\ UNCHANGED <<cfg, clock, log, comps, cur, lock, handle>>

\* The next waiter awaits future f: a task registers its wakeup on it.
ApiWait(f) ==
    /\ ApiRuns /\ main.nw < cfg.waiters
    /\ f \in ApiMade
    /\ LET w == AddDoneCallback(World, f, H("resume", main.nw, f))
       IN futures' = w.futs /\ loop' = w.lp
    /\ main' = [main EXCEPT !.nw = @ + 1,
                            !.regs = Append(@, [w |-> main.nw, f |-> f,
                                                pend |-> futures[f].st = "pending"])]
    /\ UNCHANGED <<cfg, clock, log, comps, cur, lock, handle>>

\* f.set_result(v) / f.set_exception(e), called directly.
ApiSettle(f, how) ==
    /\ ApiRuns /\ main.calls < cfg.calls
    /\ f \in ApiMade
    /\ LET w == SetResult(World, f, how, "v")
       IN /\ futures' = w.futs
          /\ loop' = w.lp
          /\ main' = [main EXCEPT !.calls = @ + 1,
                                  !.err = IF w.futs[f].rejects > futures[f].rejects
                                          THEN "InvalidStateError" ELSE "none"]
    /\ UNCHANGED <<cfg, clock, log, comps, cur, lock, handle>>

\* The loop runs a waiter's wakeup: the waiter resumes with what the future
\* holds.
ApiResume ==
    /\ ApiRuns /\ loop.ntodo > 0
    /\ Head(loop.ready).k = "resume"
    /\ log' = Append(log, [m |-> futures[Head(loop.ready).f].st,
                           i |-> Head(loop.ready).t,
                           t |-> clock,
                           f |-> Head(loop.ready).f])
    /\ loop' = Popped
    /\ UNCHANGED <<cfg, clock, main, comps, cur, futures, lock, handle>>

ApiNext ==
    \/ ApiFuture
    \/ \E d \in 1 .. ApiMaxDur : ApiSleep(d)
    \/ \E f \in FutIds : ApiWait(f)
    \/ \E f \in FutIds, how \in {"done", "failed"} : ApiSettle(f, how)
    \/ ApiResume

\* The scenarios of the notebook, and the library calls alone.
ApiSpec == (Init \/ ApiInit) /\ [][Next \/ ApiNext]_vars


\* ------------------------------------------------------------ reading the run
HasLogged(m, i) == \E k \in 1 .. Len(log) : log[k].m = m /\ log[k].i = i

\* The position of the first (m, i) line of the transcript, 0 when absent.
Pos(m, i) ==
    IF HasLogged(m, i)
    THEN CHOOSE k \in 1 .. Len(log) :
           /\ log[k].m = m /\ log[k].i = i
           /\ \A j \in 1 .. (k - 1) : ~(log[j].m = m /\ log[j].i = i)
    ELSE 0

TimeOf(m, i) == log[Pos(m, i)].t

WriteMarkers == {"Tell", "WStart", "WDone", "Completed"}

\* The lines write c has printed, in order.
MarkersOf(c) ==
    LET mine == SelectSeq(log, LAMBDA e : e.i = c /\ e.m \in WriteMarkers)
    IN [k \in 1 .. Len(mine) |-> mine[k].m]

IsPrefix(a, b) == Len(a) <= Len(b) /\ \A k \in 1 .. Len(a) : a[k] = b[k]

\* The call that created write c has just returned to the example.
JustReturned(c) == main.pc = "after_create" /\ main.i = c

TimerSet(c) ==
    \E k \in 1 .. Len(loop.timers) :
        /\ loop.timers[k].when = clock + WRITE_TIME
        /\ loop.timers[k].f = SleepFut(c)
        /\ loop.timers[k].how = "done"

\* ------------------------------------------------------------ claims

\* C1: in every eager scenario, as soon as the adapter's call for write c has
\* returned, the write's code up to its first suspension has run: both
\* markers are printed, the coroutine is suspended on the future it yielded,
\* the write timer is set with its deadline counted from the call (unless the
\* write is queued on the lock), and all of it happened in the loop pass of
\* the call, with the caller still on the stack.
C1_EagerPrefixRunsInsideInvoke ==
    (cfg.mode = "eager" /\ cfg.body = "write") =>
      \A c \in Idx :
        handle[c].kind # "none" =>
          /\ HasLogged("Tell", c) /\ HasLogged("WStart", c)
          /\ comps[c].steps >= 1
          /\ comps[c].firstTick = comps[c].createdTick
          /\ comps[c].retTick = comps[c].createdTick
          /\ comps[c].yielded # <<>>
          /\ handle[c].awaitable = comps[c].yielded[1]
          /\ (comps[c].yielded[1] = SleepFut(c)) =>
                /\ futures[SleepFut(c)].st # "none"
                /\ comps[c].sleepAt = TimeOf("Tell", c)
          /\ JustReturned(c) =>
                /\ loop.ticks = comps[c].createdTick
                /\ loop.running = MainTask
                /\ clock = TimeOf("Tell", c)
                /\ IF comps[c].yielded[1] = SleepFut(c)
                   THEN TimerSet(c)
                   ELSE \E k \in 1 .. Len(lock.waiters) : lock.waiters[k] = LockFut(c)

C1_Witness ==
    /\ cfg.mode = "eager" /\ cfg.body = "write"
    /\ \E c \in Idx :
         /\ JustReturned(c) /\ handle[c].kind = "js"
         /\ HasLogged("WStart", c) /\ TimerSet(c)
         /\ loop.ticks = comps[c].createdTick

\* C2: in the lazy scenarios (a bare coroutine object, or a Task), creating
\* write c runs none of its code: when the creating call returns the
\* coroutine has not been sent to and has printed nothing.  Its first marker
\* appears only once it is driven: for a Task (also one that gather made of
\* the coroutine) in a later pass of the loop than the one that created the
\* coroutine (the example has given up control in between), for a bare
\* coroutine when the example awaits it.
C2_LazyCreationRunsNothing ==
    (cfg.mode \in {"coro", "task"}) =>
      \A c \in Idx :
        /\ JustReturned(c) => comps[c].pc = "created"
        /\ (comps[c].pc = "created") =>
              comps[c].steps = 0 /\ MarkersOf(c) = <<>>
        /\ HasLogged("Tell", c) =>
              /\ comps[c].steps >= 1
              /\ (handle[c].kind = "task") => comps[c].firstTick > comps[c].createdTick
              /\ (handle[c].kind = "coro") =>
                    \/ main.pc \in AwaitPcs /\ main.awt = c
                    \/ comps[c].pc \in {"done", "failed"}

C2_Witness ==
    /\ cfg.mode = "task" /\ cfg.body = "write"
    /\ HasLogged("Tell", 0)
    /\ comps[0].firstTick > comps[0].createdTick
    /\ main.aw = "susp_task"

\* example10 (with or without the single-writer lock)
EagerLoop ==
    /\ cfg.mode = "eager" /\ cfg.body = "write"
    /\ cfg.join = "prev" /\ ~cfg.yield

\* C3: the eager loop ends at 3*WORK_TIME + WRITE_TIME, and for every write i
\* but the last, "OS started writing i" is printed before compute i+1
\* starts and its timer's deadline falls inside compute i+1.
C3_EagerLoopOverlaps ==
    EagerLoop =>
      /\ main.err = "none"
      /\ (main.pc = "done") =>
            main.doneAt = Iterations * WORK_TIME + WRITE_TIME
      /\ \A i \in 0 .. (Iterations - 2) :
           /\ HasLogged("XStart", i + 1) =>
                 /\ HasLogged("WStart", i)
                 /\ Pos("WStart", i) < Pos("XStart", i + 1)
                 /\ comps[i].sleepAt # -1
                 /\ TimeOf("XStart", i + 1) <= comps[i].sleepAt + WRITE_TIME
           /\ HasLogged("XDone", i + 1) =>
                 /\ comps[i].sleepAt + WRITE_TIME <= TimeOf("XDone", i + 1)
                 /\ HasLogged("WDone", i) =>
                       Pos("XDone", i + 1) < Pos("WDone", i)

C3_Witness ==
    /\ EagerLoop /\ ~cfg.lock
    /\ main.pc = "done"
    /\ main.doneAt = Iterations * WORK_TIME + WRITE_TIME
    /\ HasLogged("WDone", Iterations - 1)

\* example6 and example2
LazyLoop ==
    /\ cfg.mode \in {"coro", "task"} /\ cfg.body = "write"
    /\ cfg.join = "prev" /\ ~cfg.yield /\ ~cfg.lock

Ev(t, m, i) == [m |-> m, i |-> i, t |-> t]

\* The transcript of example2 (notebook output, times in whole units).
LazyTranscript ==
    << Ev(0, "Starting", -1),
       Ev(0, "XStart", 0), Ev(2, "XDone", 0),
       Ev(2, "XStart", 1), Ev(4, "XDone", 1),
       Ev(4, "Tell", 0), Ev(4, "WStart", 0), Ev(5, "WDone", 0), Ev(5, "Completed", 0),
       Ev(5, "XStart", 2), Ev(7, "XDone", 2),
       Ev(7, "Tell", 1), Ev(7, "WStart", 1), Ev(8, "WDone", 1), Ev(8, "Completed", 1),
       Ev(8, "Tell", 2), Ev(8, "WStart", 2), Ev(9, "WDone", 2), Ev(9, "Completed", 2),
       Ev(9, "Done", -1) >>

\* C4: the lazy loop, with a Task (example6) as with the bare coroutine
\* (example2), ends at 3*WORK_TIME + 3*WRITE_TIME; no write timer is
\* running during any compute; and both print the same transcript.
C4_LazyLoopNoOverlap ==
    LazyLoop =>
      /\ main.err = "none"
      /\ (main.pc = "cpu_busy") => loop.timers = <<>>
      /\ \A i \in Idx, j \in Idx :
           (comps[i].sleepAt # -1 /\ HasLogged("XDone", j)) =>
              ~(/\ TimeOf("XStart", j) < comps[i].sleepAt + WRITE_TIME
                /\ comps[i].sleepAt < TimeOf("XDone", j))
      /\ (main.pc = "done") =>
            /\ main.doneAt = Iterations * (WORK_TIME + WRITE_TIME)
            /\ log = LazyTranscript

C4_Witness ==
    /\ LazyLoop /\ cfg.mode = "task"
    /\ main.pc = "done"
    /\ log = LazyTranscript


\* What write_output_async prints, in program order (the lock branch of
\* os_async_write has no "OS done writing" line).
Program ==
    IF cfg.lock THEN <<"Tell", "WStart", "Completed">>
    ELSE <<"Tell", "WStart", "WDone", "Completed">>

\* C5: a handle whose first step suspended is a JSLikeCoroutine holding the
\* future the write yielded.  Awaiting it suspends the example on exactly the
\* futures the write yields, in order, starting with that one; the write is
\* sent to only after the future the example was suspended on is done; the
\* example gets the write's return value only when the write has finished;
\* and the write's lines are printed once each, in program order.  (What a
\* second await of the same handle does is C15's matter.)
C5_HandleDrivesToCompletion ==
    (cfg.mode = "eager" /\ cfg.body = "write") =>
      /\ main.err \in {"none", "at_again"}
      /\ \A c \in Idx :
           handle[c].kind # "none" =>
             /\ handle[c].kind = "js"
             /\ comps[c].yielded # <<>>
             /\ handle[c].awaitable = comps[c].yielded[1]
             /\ IsPrefix(comps[c].awaited, comps[c].yielded)
             /\ comps[c].steps <= Len(comps[c].awaited) + 1
             /\ (cur.c = c /\ cur.via = "handle") =>
                   /\ comps[c].awaited # <<>>
                   /\ futures[comps[c].awaited[Len(comps[c].awaited)]].st = "done"
             /\ IsPrefix(MarkersOf(c), Program)
             /\ (comps[c].pc = "done") => MarkersOf(c) = Program
             /\ (comps[c].got # "none") =>
                   /\ comps[c].pc = "done"
                   /\ comps[c].got = "None"
                   /\ comps[c].awaited = comps[c].yielded
                   /\ comps[c].steps = Len(comps[c].yielded) + 1
      /\ (cfg.join = "prev") =>
            \A c \in Idx : (c < main.i /\ main.pc \in {"create", "invoking", "after_create"})
                              => comps[c].got = "None"
      /\ (cfg.join # "never" /\ main.pc \in {"done_log", "done"}) =>
            \A c \in Idx : comps[c].got = "None"

\* A write that suspended twice (on the lock, then on its timer) and was
\* driven to its end through its handle.
C5_Witness ==
    /\ cfg.mode = "eager" /\ cfg.body = "write"
    /\ \E c \in Idx :
         /\ handle[c].kind = "js"
         /\ comps[c].awaited = <<LockFut(c), SleepFut(c)>>
         /\ comps[c].got = "None"
         /\ comps[c].steps = Len(comps[c].awaited) + 1

\* C6: when the wrapped coroutine returns during the adapter's first send,
\* the call returns a Future already resolved with the return value, and the
\* coroutine is never sent to again, awaited or not; an await of the Future
\* gets the value.
C6_CompletedInsideInvoke ==
    (cfg.mode = "eager" /\ cfg.body = "returns") =>
      /\ main.err = "none"
      /\ \A c \in Idx :
           handle[c].kind # "none" =>
             /\ handle[c].kind = "settled"
             /\ futures[handle[c].awaitable].st = "done"
             /\ futures[handle[c].awaitable].val = "val"
             /\ comps[c].pc = "done"
             /\ comps[c].steps = 1
             /\ comps[c].yielded = <<>>
             /\ comps[c].got \in {"none", "val"}
      /\ (cfg.join = "prev" /\ main.pc = "done") =>
            \A c \in Idx : comps[c].got = "val"
      /\ (cfg.join = "never") => \A c \in Idx : comps[c].got = "none"

C6_Witness ==
    /\ cfg.mode = "eager" /\ cfg.body = "returns" /\ cfg.join = "prev"
    /\ main.pc = "done"
    /\ \A c \in Idx : comps[c].got = "val" /\ comps[c].steps = 1

\* C7 (as claimed): a coroutine that raises before its first await does not
\* make the adapter's call raise; the call returns a failed Future and the
\* exception reaches only who awaits it.
C7_FailureStaysInHandle ==
    (cfg.mode = "eager" /\ cfg.body = "raises") =>
      /\ main.err # "at_invoke"
      /\ \A c \in Idx :
           (comps[c].pc = "failed") =>
              /\ handle[c].kind = "settled"
              /\ futures[handle[c].awaitable].st = "failed"


NoDuplicates(q) == \A a \in 1 .. Len(q), b \in 1 .. Len(q) : q[a] = q[b] => a = b

Dist(a, b) == IF a >= b THEN a - b ELSE b - a

\* The writes that are inside `try: await async_sleep(WRITE_TIME)`.
InTimedWait == {c \in Idx : comps[c].pc \in {"await_sleep", "wait_sleep", "release"}}

\* C8: with lock=True at most one write is between being granted write_lock
\* and releasing it, whatever the example does; only the holder is in its
\* timed wait, and two timed waits never overlap; and the lock is granted
\* again only after a release (grants = releases + the current holder).
C8_LockMutualExclusion ==
    cfg.lock =>
      /\ Cardinality(lock.holders) <= 1
      /\ (lock.holders # {}) => lock.locked
      /\ InTimedWait \subseteq lock.holders
      /\ \A c \in Idx : (futures[SleepFut(c)].st = "pending") => c \in lock.holders
      /\ \A c \in Idx, d \in Idx :
           (c # d /\ comps[c].sleepAt # -1 /\ comps[d].sleepAt # -1) =>
              Dist(comps[c].sleepAt, comps[d].sleepAt) >= WRITE_TIME
      /\ Len(lock.grantOrder) = Len(lock.wakes) + Cardinality(lock.holders)

\* One write holds the lock in its timed wait while two others are queued.
C8_Witness ==
    /\ cfg.lock
    /\ \E c \in Idx :
         /\ lock.holders = {c}
         /\ futures[SleepFut(c)].st = "pending"
         /\ Len(lock.waiters) = Iterations - 1

\* The writes in the order they printed "OS writing completed".
CompletedOrder ==
    LET done == SelectSeq(log, LAMBDA e : e.m = "Completed")
    IN [k \in 1 .. Len(done) |-> done[k].i]

\* C9: the lock is granted in the order acquire was called (the queue is
\* FIFO), no write is granted twice, a release wakes at most one waiter and
\* it is the oldest one, and the locked writes complete in the order 0, 1, 2.
C9_LockFifo ==
    cfg.lock =>
      /\ IsPrefix(lock.grantOrder, lock.acqOrder)
      /\ NoDuplicates(lock.grantOrder)
      /\ \A k \in 1 .. Len(lock.wakes) : Len(lock.wakes[k]) <= 1
      /\ Cardinality({k \in 1 .. Len(lock.waiters) :
                         futures[lock.waiters[k]].st = "done"}) <= 1
      /\ \A k \in 1 .. Len(lock.waiters) :
           (futures[lock.waiters[k]].st = "done") => k = 1
      /\ IsPrefix(CompletedOrder, [k \in 1 .. Iterations |-> k - 1])

\* Two writes were queued at once, and all three got the lock in turn.
C9_Witness ==
    /\ cfg.lock /\ cfg.mode = "task" /\ ~cfg.yield
    /\ lock.acqOrder = [k \in 1 .. Iterations |-> k - 1]
    /\ lock.grantOrder = lock.acqOrder
    /\ Len(lock.wakes) = Iterations
    /\ lock.wakes[1] = <<LockFut(1)>>
    /\ CompletedOrder = lock.acqOrder

SleepsDone == {c \in Idx : futures[SleepFut(c)].st = "done"}

TotalSteps(cmps) == [c \in Idx |-> cmps[c].steps]

\* C10: while a task's code is on the stack (in particular during
\* do_cpu_work) the loop does nothing: no pass starts, no timer is taken off
\* the timer queue, no timer future is resolved, no other task is switched
\* to, and only the write the running task drives is stepped; a timer future
\* is resolved only in a step the loop takes with nothing on the stack.
C10_NoPreemption ==
    [][ /\ (loop.running # NoTask) =>
              /\ loop'.running \in {loop.running, NoTask}
              /\ loop'.ticks = loop.ticks
              /\ SleepsDone' = SleepsDone
              /\ \A k \in 1 .. Len(loop.timers) :
                    \E j \in 1 .. Len(loop'.timers) : loop'.timers[j] = loop.timers[k]
              /\ \A c \in Idx :
                    (comps'[c].steps # comps[c].steps) =>
                        (loop.running = MainTask /\ c \in {main.i, main.awt})
        /\ (main.pc = "cpu_busy") =>
              (loop.running = MainTask /\ TotalSteps(comps') = TotalSteps(comps))
        /\ (SleepsDone' # SleepsDone) =>
              (loop.running = NoTask /\ loop'.running = NoTask)
      ]_vars

\* A write timer's deadline has passed in the middle of do_cpu_work and its
\* future is still pending.
C10_Witness ==
    /\ main.pc = "cpu_busy" /\ main.cpuLeft > 0
    /\ \E k \in 1 .. Len(loop.timers) :
         /\ loop.timers[k].when <= clock
         /\ futures[loop.timers[k].f].st = "pending"

Settled == {"done", "failed"}

Idle == loop.running = NoTask /\ loop.ready = <<>> /\ loop.timers = <<>>

\* C11: a future is settled by the first set_result / set_exception call
\* only.  At most one call ever takes effect on a future; a call on a settled
\* future is refused (InvalidStateError, which a direct caller gets) and
\* leaves the state, the value and the callbacks as they were; a call on a
\* pending future settles it.  In the scenarios every future that async_sleep
\* made is resolved by its timer exactly once: never refused, and resolved
\* when the loop has nothing left to do (failed exactly once, for the
\* coroutine whose timer calls set_exception).
C11_FutureOneShot ==
    /\ [](\A f \in FutIds :
            /\ futures[f].sets <= 1
            /\ (futures[f].st \in Settled) <=> (futures[f].sets = 1)
            /\ (futures[f].st \notin Settled) => (futures[f].rejects = 0)
            /\ (~ApiRuns /\ f[1] = "sleep") =>
                  /\ futures[f].rejects = 0
                  /\ (Idle /\ futures[f].st # "none") =>
                        /\ futures[f].sets = 1
                        /\ futures[f].st =
                             (IF cfg.body = "awaits_failed" THEN "failed" ELSE "done"))
    /\ [][\A f \in FutIds :
            /\ (futures[f].st \in Settled) =>
                  /\ futures'[f].st = futures[f].st
                  /\ futures'[f].val = futures[f].val
                  /\ futures'[f].cbs = futures[f].cbs
                  /\ futures'[f].sets = futures[f].sets
            /\ (futures'[f].rejects # futures[f].rejects) =>
                  /\ futures[f].st \in Settled
                  /\ futures'[f].rejects = futures[f].rejects + 1
                  /\ loop'.ready = loop.ready \/ loop'.ready = Tail(loop.ready)
                  /\ (ApiRuns /\ main'.calls # main.calls) =>
                        main'.err = "InvalidStateError"
            /\ (futures'[f].sets # futures[f].sets) =>
                  /\ futures[f].st \notin Settled
                  /\ futures'[f].st \in Settled
                  /\ (ApiRuns /\ main'.calls # main.calls) => main'.err = "none"
      ]_vars

\* A future failed by a direct call and then refused two more calls, one of
\* them its own timer's; it still holds the first call's outcome.
C11_Witness ==
    /\ ApiRuns
    /\ \E f \in FutIds :
          /\ futures[f].st = "failed" /\ futures[f].val = "v"
          /\ futures[f].rejects = 2 /\ futures[f].sets = 1
          /\ f \in {loop.fired[k] : k \in 1 .. Len(loop.fired)}
          /\ main.err = "InvalidStateError"

\* The waiters registered on future f, in registration order, and the
\* waiters of f that have resumed, in the order they resumed.
RegsOn(f) ==
    LET mine == SelectSeq(main.regs, LAMBDA r : r.f = f)
    IN [k \in 1 .. Len(mine) |-> mine[k].w]

ResumedOn(f) ==
    LET mine == SelectSeq(log, LAMBDA e : e.f = f)
    IN [k \in 1 .. Len(mine) |-> mine[k].i]

\* C12: the waiters of a future resume in the order they registered, each
\* once: at every moment the waiters of f that have resumed are the first
\* ones registered on f, in that order; none resumes while f is pending; each
\* resumes with the outcome f was settled with; and when the loop has nothing
\* left to do every waiter of a settled future has resumed.
C12_WaiterFifo ==
    ApiRuns =>
      \A f \in FutIds :
        /\ NoDuplicates(RegsOn(f))
        /\ IsPrefix(ResumedOn(f), RegsOn(f))
        /\ (futures[f].st \notin Settled) => ResumedOn(f) = <<>>
        /\ \A k \in 1 .. Len(log) : log[k].f = f => log[k].m = futures[f].st
        /\ (Idle /\ loop.ntodo = 0 /\ futures[f].st \in Settled) =>
              ResumedOn(f) = RegsOn(f)

\* Three waiters (or more) registered on one future while it was pending,
\* and all resumed.
C12_Witness ==
    /\ ApiRuns
    /\ \E f \in FutIds :
          /\ Len(RegsOn(f)) >= 3
          /\ \A k \in 1 .. Len(main.regs) : main.regs[k].pend
          /\ ResumedOn(f) = RegsOn(f)

\* The place of future f's timer in the order of the call_later calls, and
\* its deadline.
MadePos(f) == CHOOSE k \in 1 .. Len(loop.made) : loop.made[k].f = f

When(f) == loop.made[MadePos(f)].when

\* a is to run before b: the earlier deadline, the earlier call_later call
\* when the deadlines are equal.
Before(a, b) ==
    \/ When(a) < When(b)
    \/ When(a) = When(b) /\ MadePos(a) < MadePos(b)

GatherScenario ==
    /\ cfg.mode = "coro" /\ cfg.join = "end" /\ cfg.body = "write"
    /\ ~cfg.lock /\ ~cfg.yield

\* C13: the timers' callbacks run in the order of their deadlines, whatever
\* the order of the call_later calls, and in the order of the calls when the
\* deadlines are equal; none runs before its deadline, and every timer still
\* waiting is due no earlier than the timers that have run.  In
\* example3_gather the three writes start at the same instant and complete in
\* the order 0, 1, 2.
C13_TimerOrder ==
    /\ \A a \in 1 .. Len(loop.fired), b \in 1 .. Len(loop.fired) :
          a < b => Before(loop.fired[a], loop.fired[b])
    /\ \A a \in 1 .. Len(loop.fired) : When(loop.fired[a]) <= clock
    /\ \A a \in 1 .. Len(loop.fired), b \in 1 .. Len(loop.timers) :
          When(loop.fired[a]) <= loop.timers[b].when
    /\ (GatherScenario /\ main.pc = "done") =>
          /\ TimeOf("WStart", 0) = TimeOf("WStart", 1)
          /\ TimeOf("WStart", 1) = TimeOf("WStart", 2)
          /\ loop.fired = <<SleepFut(0), SleepFut(1), SleepFut(2)>>
          /\ CompletedOrder = <<0, 1, 2>>

\* The steps of the task of write c that wait on the ready queue.
QueuedFor(c) ==
    Cardinality({k \in 1 .. Len(loop.ready) :
                   loop.ready[k].k \in {"step", "wake"} /\ loop.ready[k].t = c})

\* C14 as stated: when create_task returns, the coroutine of the new task has
\* been stepped exactly once.
C14_SubmitStepsOnce ==
    (cfg.mode = "task") =>
      \A c \in Idx : JustReturned(c) => comps[c].steps = 1

\* C14, amended: create_task steps nothing itself.  When it returns the
\* coroutine has not been stepped and exactly one first step waits on the
\* ready queue; it stays unstepped for the rest of the loop pass that created
\* it; at most one step of a task is ever queued; and each step the loop runs
\* ends in one suspension or in the task's end.
C14_SubmitQueuesOneStep ==
    (cfg.mode = "task") =>
      \A c \in Idx :
        /\ JustReturned(c) =>
              /\ comps[c].steps = 0
              /\ comps[c].pc = "created"
              /\ QueuedFor(c) = 1
              /\ loop.ready[Len(loop.ready)] = H("step", c, NoFut)
        /\ QueuedFor(c) <= 1
        /\ (comps[c].createdTick = loop.ticks) => comps[c].steps = 0
        /\ (cur.c # c /\ comps[c].pc # "none") =>
              comps[c].steps = Len(comps[c].yielded)
                               + (IF comps[c].pc \in {"done", "failed"} THEN 1 ELSE 0)

\* create_task has just returned for the second write: nothing of it has
\* run, while the first write's task has been stepped.
C14_Witness ==
    /\ cfg.mode = "task" /\ cfg.body = "write"
    /\ JustReturned(1)
    /\ comps[1].steps = 0 /\ QueuedFor(1) = 1
    /\ comps[0].steps >= 1

\* C15 as stated: a handle of the adapter can be awaited again after it has
\* settled; the second await receives the result too, and the wrapped
\* coroutine is never sent to after it has ended.
C15_EveryAwaitGetsResult ==
    (cfg.mode = "eager" /\ cfg.join = "twice" /\ cfg.body = "write") =>
      /\ main.err # "at_again"
      /\ (main.pc \in {"done_log", "done"}) => main.again = "value"
      /\ \A c \in Idx : comps[c].late = 0

FailingBodies == {"fails_late", "awaits_failed"}

\* The steps of the example's own task that wait on the ready queue.
QueuedForMain ==
    Cardinality({k \in 1 .. Len(loop.ready) :
                   loop.ready[k].k \in {"step", "wake"} /\ loop.ready[k].t = MainTask})

\* C16: a failure after a suspension reaches the waiters and nobody else
\* gets a value.  A coroutine that raises after awaiting async_sleep, or
\* whose awaited future fails, never ends with a result; it fails only after
\* it has suspended; with the lock, the failure passes the finally clause,
\* which releases the lock; its Task's future becomes failed; the example
\* awaiting it is resumed with the error at that await, once (it does not
\* run on), and never reaches its end as if the write had succeeded.  The
\* waiters registered on a failed future resume in registration order, each
\* once, each with the failure, and all of them by the time the loop has
\* nothing left to do.
C16_FailurePropagates ==
    /\ (~ApiRuns /\ cfg.body \in FailingBodies) =>
          /\ \A c \in Idx :
                /\ comps[c].got = "none"
                /\ comps[c].pc # "done"
                /\ (comps[c].pc = "failed") =>
                      /\ comps[c].yielded # <<>>
                      /\ comps[c].steps = Len(comps[c].yielded) + 1
                      /\ c \notin lock.holders
                      /\ (handle[c].kind = "task") =>
                            /\ futures[TaskFut(c)].st = "failed"
                            /\ futures[TaskFut(c)].sets = 1
                /\ (handle[c].kind = "task" /\ futures[TaskFut(c)].st \in Settled) =>
                      /\ futures[TaskFut(c)].st = "failed"
                      /\ comps[c].pc = "failed"
          /\ (main.pc = "failed") =>
                /\ main.err = "at_await"
                /\ loop.running = NoTask /\ QueuedForMain = 0
                /\ \/ comps[main.awt].pc = "failed"
                   \/ /\ handle[main.awt].kind = "js"
                      /\ cfg.body = "awaits_failed"
                      /\ futures[SleepFut(main.awt)].st = "failed"
          /\ (main.err # "none") => main.pc = "failed"
          /\ (cfg.join # "never") => main.pc \notin {"done_log", "done"}
          /\ (cfg.join # "never" /\ Idle) => main.pc = "failed"
    /\ ApiRuns =>
          \A f \in FutIds :
            (futures[f].st = "failed") =>
              /\ NoDuplicates(RegsOn(f))
              /\ IsPrefix(ResumedOn(f), RegsOn(f))
              /\ \A k \in 1 .. Len(log) : log[k].f = f => log[k].m = "failed"
              /\ (Idle /\ loop.ntodo = 0) => ResumedOn(f) = RegsOn(f)

\* The task of write 0 held the lock when its sleep future failed: the lock
\* is released, the task's future is failed, and the example that awaited
\* the task has been resumed with the error.
C16_Witness ==
    /\ cfg.mode = "task" /\ cfg.lock /\ cfg.body = "awaits_failed"
    /\ comps[0].pc = "failed" /\ Len(comps[0].yielded) >= 1
    /\ futures[SleepFut(0)].st = "failed"
    /\ futures[TaskFut(0)].st = "failed"
    /\ ~lock.locked
    /\ main.pc = "failed" /\ main.err = "at_await" /\ main.awt = 0

OsWriteReturned(c) == HasLogged("WStart", c) /\ comps[c].pc # "sleep"

\* C18 as stated: whatever the value of lock, once os_async_write has
\* returned the timer of the write is scheduled, and its deadline is the time
\* of the call plus WRITE_TIME.
C18_WriteStartsAtCall ==
    \A c \in Idx :
      OsWriteReturned(c) =>
        \E k \in 1 .. Len(loop.made) :
          /\ loop.made[k].f = SleepFut(c)
          /\ loop.made[k].when = TimeOf("WStart", c) + WRITE_TIME

\* C19: a handle of the adapter is driven by its awaiter only.  While the
\* handle has not been awaited the wrapped coroutine has been sent to once,
\* in the adapter's call, and is suspended at its first suspension point
\* with its last line unprinted, whatever the loop has run meanwhile; a step
\* of the coroutine is always the awaiting example's send; and in the
\* examples that never await, the coroutine is still there when the loop has
\* nothing left to do, its sleep future long resolved.
C19_HandleDrivenLazily ==
    /\ []((cfg.mode = "eager") =>
            \A c \in Idx :
              (handle[c].kind = "js") =>
                /\ (cfg.join = "never") => comps[c].awaited = <<>>
                /\ (comps[c].awaited = <<>>) =>
                      /\ comps[c].steps = 1
                      /\ Len(comps[c].yielded) = 1
                      /\ comps[c].pc \in {"wait_sleep", "wait_lock"}
                      /\ comps[c].got = "none"
                      /\ ~HasLogged("Completed", c)
                      /\ (Idle /\ comps[c].pc = "wait_sleep") =>
                            /\ futures[SleepFut(c)].st \in Settled
                            /\ loop.ticks > comps[c].retTick)
    /\ [][\A c \in Idx :
            (handle[c].kind = "js" /\ comps'[c].steps # comps[c].steps) =>
              /\ comps'[c].steps = comps[c].steps + 1
              /\ main.pc \in AwaitPcs /\ main.awt = c
              /\ comps[c].awaited # <<>>
              /\ cur'.via = "handle"
      ]_vars

\* No write was ever awaited: every sleep future is resolved and the loop
\* has run dry, and each coroutine still sits at its first suspension.
C19_Witness ==
    /\ cfg.mode = "eager" /\ cfg.join = "never" /\ cfg.body = "write"
    /\ Idle /\ main.pc = "done"
    /\ \A c \in Idx :
          /\ handle[c].kind = "js"
          /\ comps[c].steps = 1
          /\ comps[c].pc = "wait_sleep"
          /\ futures[SleepFut(c)].st = "done"
          /\ loop.ticks > comps[c].retTick

\* example3_gather and example4_taskgroup_create_task_outside_loop.
JoinedAtEnd ==
    /\ cfg.mode \in {"coro", "task"} /\ cfg.join = "end" /\ cfg.body = "write"
    /\ ~cfg.lock /\ ~cfg.yield

AllWork == Iterations * WORK_TIME

\* C20: with gather or a TaskGroup, no lock and no suspension in the loop,
\* nothing of a write is printed before the last computation has finished;
\* the writes all start at that instant, Iterations * WORK_TIME; each timer
\* is due WRITE_TIME later, so the writes run side by side (every write has
\* started before any is done); and the example ends at
\* Iterations * WORK_TIME + WRITE_TIME = 7, which it has done when the loop
\* has nothing left to do.
C20_JoinAtEndStartsLate ==
    JoinedAtEnd =>
      /\ \A c \in Idx :
            /\ (MarkersOf(c) # <<>>) =>
                  /\ HasLogged("XDone", Iterations - 1)
                  /\ Pos("XDone", Iterations - 1) < Pos("Tell", c)
            /\ HasLogged("Tell", c) => TimeOf("Tell", c) = AllWork
            /\ HasLogged("WStart", c) => TimeOf("WStart", c) = AllWork
            /\ HasLogged("WDone", c) =>
                  /\ TimeOf("WDone", c) = AllWork + WRITE_TIME
                  /\ \A d \in Idx :
                        /\ HasLogged("WStart", d)
                        /\ Pos("WStart", d) < Pos("WDone", c)
      /\ \A k \in 1 .. Len(loop.made) : loop.made[k].when = AllWork + WRITE_TIME
      /\ (main.pc = "done") =>
            /\ main.doneAt = AllWork + WRITE_TIME
            /\ main.doneAt = 7
            /\ \A c \in Idx : comps[c].pc = "done"
      /\ Idle => main.pc = "done"

\* The three writes are under way together: all started at 6, none done.
C20_Witness ==
    /\ JoinedAtEnd
    /\ clock = AllWork
    /\ \A c \in Idx : HasLogged("WStart", c) /\ ~HasLogged("WDone", c)
    /\ Len(loop.timers) = Iterations

\* example5_taskgroup_create_task_outside_loop_with_lock
TaskGroupWithLock ==
    /\ cfg.mode = "task" /\ cfg.join = "end" /\ cfg.body = "write"
    /\ cfg.lock /\ ~cfg.yield

\* C21: in the TaskGroup example with the lock, no task is stepped before
\* the last computation has finished; all three then print their first
\* lines at Iterations * WORK_TIME; the timed waits follow one another
\* (write i starts its wait when write i - 1 has released the lock, and its
\* timer is due WRITE_TIME later); write i completes at
\* Iterations * WORK_TIME + (i + 1) * WRITE_TIME; and the example ends at
\* Iterations * (WORK_TIME + WRITE_TIME) = 9.
C21_TaskGroupLockSerializes ==
    TaskGroupWithLock =>
      /\ \A c \in Idx :
            /\ (comps[c].steps > 0) =>
                  /\ HasLogged("XDone", Iterations - 1)
                  /\ comps[c].firstTick > comps[Iterations - 1].createdTick
            /\ HasLogged("Tell", c) =>
                  /\ Pos("XDone", Iterations - 1) < Pos("Tell", c)
                  /\ TimeOf("Tell", c) = AllWork
            /\ HasLogged("WStart", c) => TimeOf("WStart", c) = AllWork
            /\ (comps[c].sleepAt # -1) =>
                  comps[c].sleepAt = AllWork + c * WRITE_TIME
            /\ \A k \in 1 .. Len(loop.made) :
                  (loop.made[k].f = SleepFut(c)) =>
                     loop.made[k].when = AllWork + (c + 1) * WRITE_TIME
            /\ HasLogged("Completed", c) =>
                  TimeOf("Completed", c) = AllWork + (c + 1) * WRITE_TIME
      /\ Len(loop.timers) <= 1
      /\ (main.pc = "done") =>
            /\ main.doneAt = Iterations * (WORK_TIME + WRITE_TIME)
            /\ main.doneAt = 9
            /\ CompletedOrder = <<0, 1, 2>>
      /\ Idle => main.pc = "done"

\* Write 1 is in its timed wait at 7, after write 0 completed, while write 2
\* still waits for the lock.
C21_Witness ==
    /\ TaskGroupWithLock
    /\ clock = AllWork + WRITE_TIME
    /\ HasLogged("Completed", 0)
    /\ comps[1].pc = "wait_sleep" /\ lock.holders = {1}
    /\ comps[2].pc = "wait_lock"

\* example7_sleep_with_task
TaskWithYield ==
    /\ cfg.mode = "task" /\ cfg.join = "prev" /\ cfg.body = "write"
    /\ ~cfg.lock /\ cfg.yield

\* C22: in example7 the task of write i gets its first step in the
\* asyncio.sleep(0) that follows its creation: "OS started writing i" is
\* printed at (i + 1) * WORK_TIME, before compute i + 1 starts; its timer
\* runs out during compute i + 1, and "OS done writing i" and "OS writing
\* completed i" are the two lines printed right after "done" of compute
\* i + 1, at (i + 2) * WORK_TIME; the last write is done WRITE_TIME after it
\* started, and the example ends at Iterations * WORK_TIME + WRITE_TIME = 7.
C22_TaskWithYieldOverlaps ==
    TaskWithYield =>
      /\ \A i \in Idx :
            /\ HasLogged("WStart", i) =>
                  /\ TimeOf("WStart", i) = (i + 1) * WORK_TIME
                  /\ TimeOf("Tell", i) = (i + 1) * WORK_TIME
            /\ \A k \in 1 .. Len(loop.made) :
                  (loop.made[k].f = SleepFut(i)) =>
                     loop.made[k].when = (i + 1) * WORK_TIME + WRITE_TIME
            /\ (i + 1 \in Idx /\ HasLogged("XStart", i + 1)) =>
                  /\ HasLogged("WStart", i)
                  /\ Pos("WStart", i) < Pos("XStart", i + 1)
                  /\ ~HasLogged("WDone", i) \/ HasLogged("XDone", i + 1)
            /\ (i + 1 \in Idx /\ HasLogged("WDone", i)) =>
                  /\ Pos("WDone", i) = Pos("XDone", i + 1) + 1
                  /\ TimeOf("WDone", i) = (i + 2) * WORK_TIME
            /\ (i + 1 \in Idx /\ HasLogged("Completed", i)) =>
                  /\ Pos("Completed", i) = Pos("XDone", i + 1) + 2
                  /\ comps[i].got = "none" \/ main.i > i
            /\ (i = Iterations - 1 /\ HasLogged("Completed", i)) =>
                  TimeOf("Completed", i) = AllWork + WRITE_TIME
      /\ (main.pc = "done") =>
            /\ main.doneAt = AllWork + WRITE_TIME
            /\ main.doneAt = 7
            /\ \A c \in Idx : comps[c].got = "None"
      /\ Idle => main.pc = "done"

\* Compute 2 is running, write 1 has started and its timer is already due,
\* and write 0 has been awaited.
C22_Witness ==
    /\ TaskWithYield
    /\ HasLogged("XStart", 2) /\ ~HasLogged("XDone", 2)
    /\ HasLogged("WStart", 1) /\ ~HasLogged("WDone", 1)
    /\ clock > WORK_TIME * 2 + WRITE_TIME
    /\ comps[0].got = "None"

\* example9_task_with_async_for
AsyncForWithLock ==
    /\ cfg.mode = "task" /\ cfg.join = "end" /\ cfg.body = "write"
    /\ cfg.lock /\ cfg.yield

\* C23: in example9 the task of write i is first stepped in the
\* asyncio.sleep(0) of to_aiter, at (i + 1) * WORK_TIME and before compute
\* i + 1 starts.  Write 0 takes the lock at once; its timer is taken off the
\* heap in the loop pass after compute 1, behind the example's own step, so
\* its future is resolved after compute 2 and its task is resumed a pass
\* later: until write 2 has printed its first lines write 0 holds the lock,
\* and "OS writing completed 0" comes after them, at Iterations * WORK_TIME.  Writes 1 and 2 then wait one after the other
\* (from 6 and from 7) and complete at 7 and 8, and the example ends at
\* Iterations * WORK_TIME + 2 * WRITE_TIME = 8.
C23_AsyncForLockDelaysRelease ==
    AsyncForWithLock =>
      /\ \A i \in Idx :
            /\ HasLogged("WStart", i) =>
                  /\ TimeOf("Tell", i) = (i + 1) * WORK_TIME
                  /\ TimeOf("WStart", i) = (i + 1) * WORK_TIME
            /\ (i + 1 \in Idx /\ HasLogged("XStart", i + 1)) =>
                  /\ comps[i].steps >= 1
                  /\ Pos("WStart", i) < Pos("XStart", i + 1)
            /\ (comps[i].sleepAt # -1) =>
                  comps[i].sleepAt = (IF i = 0 THEN WORK_TIME
                                      ELSE AllWork + (i - 1) * WRITE_TIME)
            /\ HasLogged("Completed", i) =>
                  /\ TimeOf("Completed", i) = AllWork + i * WRITE_TIME
                  /\ \A d \in Idx : /\ HasLogged("WStart", d)
                                    /\ Pos("WStart", d) < Pos("Completed", i)
                  /\ Pos("XDone", Iterations - 1) < Pos("Completed", i)
      /\ (comps[0].sleepAt # -1 /\ ~HasLogged("WStart", Iterations - 1)) =>
            /\ lock.locked /\ lock.holders = {0}
            /\ comps[0].steps = 1
      /\ Len(loop.timers) <= 1
      /\ (main.pc = "done") =>
            /\ main.doneAt = AllWork + 2 * WRITE_TIME
            /\ main.doneAt = 8
            /\ CompletedOrder = <<0, 1, 2>>
      /\ Idle => (main.pc = "done" /\ ~lock.locked)

\* Write 2 has been stepped and queued for the lock behind write 1; write
\* 0's sleep future is resolved, and write 0 still holds the lock.
C23_Witness ==
    /\ AsyncForWithLock
    /\ HasLogged("WStart", 2)
    /\ futures[SleepFut(0)].st = "done"
    /\ lock.holders = {0} /\ comps[0].pc = "wait_sleep"
    /\ comps[1].pc = "wait_lock" /\ comps[2].pc = "wait_lock"

\* example2_await_before_next_write_fixed_function (write_output_awaitable)
\* and example10_fixed_write_with_gather (js_like_await(write_output_async)).
FixedLoop ==
    /\ cfg.mode \in {"awaitable", "eager"} /\ cfg.join = "prev"
    /\ cfg.body = "write" /\ ~cfg.lock /\ ~cfg.yield

\* The transcript both examples print (notebook output, times in whole
\* units).
FixedTranscript ==
    << Ev(0, "Starting", -1),
       Ev(0, "XStart", 0), Ev(2, "XDone", 0),
       Ev(2, "Tell", 0), Ev(2, "WStart", 0),
       Ev(2, "XStart", 1), Ev(4, "XDone", 1),
       Ev(4, "WDone", 0), Ev(4, "Completed", 0),
       Ev(4, "Tell", 1), Ev(4, "WStart", 1),
       Ev(4, "XStart", 2), Ev(6, "XDone", 2),
       Ev(6, "WDone", 1), Ev(6, "Completed", 1),
       Ev(6, "Tell", 2), Ev(6, "WStart", 2),
       Ev(6, "AwaitLast", -1),
       Ev(7, "WDone", 2), Ev(7, "Completed", 2),
       Ev(7, "Done", -1) >>

\* C24: the hand-written function and the decorated coroutine function
\* behave alike in the await-before-next-write loop.  At every moment what
\* either has printed is a beginning of the same transcript, with the same
\* times; each timer is set when the write is called; and both end with the
\* whole transcript, without error, at Iterations * WORK_TIME + WRITE_TIME
\* = 7.
C24_FixedFormsAgree ==
    FixedLoop =>
      /\ IsPrefix(log, FixedTranscript)
      /\ main.err = "none"
      /\ \A c \in Idx :
            (comps[c].sleepAt # -1) => comps[c].sleepAt = (c + 1) * WORK_TIME
      /\ (main.pc = "done") =>
            /\ log = FixedTranscript
            /\ main.doneAt = AllWork + WRITE_TIME
            /\ main.doneAt = 7
      /\ Idle => main.pc = "done"

\* The hand-written function's example has printed the whole transcript.
C24_Witness ==
    /\ FixedLoop /\ cfg.mode = "awaitable"
    /\ main.pc = "done" /\ log = FixedTranscript
    /\ \A c \in Idx : handle[c].kind = "coro" /\ comps[c].got = "None"

\* The examples of the notebook and their variants: every write is awaited,
\* by the loop body or at the end.
AwaitsItsWrites == cfg.body = "write" /\ cfg.join \in {"prev", "end"}

\* Nothing is left to run, the example has logged Done, every write has
\* completed and the lock is free.
Finished ==
    /\ Idle /\ loop.ntodo = 0
    /\ main.pc = "done" /\ main.err = "none" /\ HasLogged("Done", -1)
    /\ \A c \in Idx : comps[c].pc = "done" /\ HasLogged("Completed", c)
    /\ ~lock.locked /\ lock.waiters = <<>> /\ lock.holders = {}

\* C25: every example that awaits its writes comes to an end: the loop
\* reaches a state with the ready queue and the timer heap empty and stays
\* there, and whenever the loop has nothing left to do the example has
\* logged Done, each of the three writes has completed, and write_lock is
\* not held and has no waiter.
C25_Terminates ==
    /\ AwaitsItsWrites => <>[]Finished
    /\ []((AwaitsItsWrites /\ Idle) => Finished)

\* The decorated function's example with the lock, writes awaited at the
\* end, has come to its end.
C25_Witness ==
    /\ Finished
    /\ cfg.mode = "eager" /\ cfg.lock /\ cfg.join = "end"
    /\ lock.grantOrder # <<>>

\* C26 as stated: an await on a Task or on the settled future the adapter
\* returns never gets its result inline; the step that hands the result to
\* the awaiting example is the loop running the example's wakeup, taken from
\* the head of the ready queue.
C26_ResumedFromReadyQueueOnly ==
    [][\A c \in Idx :
         (/\ handle[c].kind \in {"settled", "task"}
          /\ comps[c].got = "none"
          /\ comps'[c].got # "none") =>
            /\ loop.ready # <<>>
            /\ Head(loop.ready).t = MainTask
            /\ Head(loop.ready).k \in {"step", "wake"}
            /\ loop'.ready = Tail(loop.ready)
      ]_vars

Count(x, q) == Cardinality({k \in 1 .. Len(q) : q[k] = x})

\* The statements of the locked write that come after `await lock_awaitable`.
PastAcquire ==
    {"sleep", "await_sleep", "wait_sleep", "release", "completed", "done"}

====
